---- MODULE Spec2Model ----
(***************************************************************************)
(* Model of src/app.js: the per-connection streaming relay between a       *)
(* WebSocket client and the AWS Transcribe streaming backend.              *)
(*                                                                         *)
(* Every connection handler invocation (wss.on('connection'), app.js:46)   *)
(* owns a closure of variables; the closure of connection s is the record  *)
(* sess[s].  The module-level variable transcribeClient (app.js:11) is the *)
(* only variable outside the closures.                                     *)
(*                                                                         *)
(* Node runs each callback to completion, so one action is the code that   *)
(* runs between two suspension points (await / yield / event delivery).    *)
(***************************************************************************)
EXTENDS Integers, Sequences, FiniteSets, TLC

VARIABLES
    transcribeClient,   \* app.js:11  identity (generation) of the module-level client
    sess                \* app.js:49-60  one closure record per connection

vars == <<transcribeClient, sess>>

----------------------------------------------------------------------------
(* Bounds of the model *)

\* inbound client messages handled per connection
MaxMessages == 2
\* speaker identities the backend may report in the session specification
MaxSpeakers == 2
\* items per transcript event
MaxItems == 1
\* speaker identities the backend may report in the registry specification
MaxRegistrySpeakers == 9

\* speaker identities the backend may report in the ordering specification
MaxOrderSpeakers == 1

\* the connections that exist
Sessions == {1, 2}

----------------------------------------------------------------------------
(* Program constants *)

\* app.js:280   10 * 1024
MaxChunkBytes == 10 * 1024

\* app.js:57-60
colorPalette ==
    << "#FF6B6B", "#4ECDC4", "#45B7D1", "#FFA07A",
       "#98D8C8", "#F06292", "#7986CB", "#9575CD" >>

\* app.js:35-44
TRANSCRIBE_ERRORS ==
    [ BAD_REQUEST           |-> "BadRequestException",
      CONFLICT              |-> "ConflictException",
      INTERNAL_FAILURE      |-> "InternalFailureException",
      LIMIT_EXCEEDED        |-> "LimitExceededException",
      SERVICE_UNAVAILABLE   |-> "ServiceUnavailableException",
      EXPIRED_TOKEN         |-> "ExpiredTokenException",
      STREAM_CLOSED         |-> "ERR_STREAM_PREMATURE_CLOSE",
      SPEAKER_NOT_SUPPORTED |-> "UnsupportedOperationException" ]

\* JavaScript null / undefined for the speaker and stream handles
None == 0
NoColor == "null"
NoMsg == [type |-> "none"]

----------------------------------------------------------------------------
(* Inputs *)

\* Errors the backend adapter can throw, by err.name and err.code: one for each
\* way handleTranscribeError tells them apart (app.js:92, 103, 109, 114-129, 130).
BackendErrors ==
    { [name |-> n, code |-> "none"] :
        n \in { TRANSCRIBE_ERRORS.EXPIRED_TOKEN, TRANSCRIBE_ERRORS.SPEAKER_NOT_SUPPORTED,
                TRANSCRIBE_ERRORS.SERVICE_UNAVAILABLE, "AbortError" } }
    \cup { [name |-> "Error", code |-> TRANSCRIBE_ERRORS.STREAM_CLOSED] }

\* Lengths (in base64 characters) of the chunk strings a client sends.
\* 0 is the empty string; 13654 characters decode to exactly 10240 bytes,
\* 13655 to 10241.
ChunkB64Lens == {0, 13654, 13655}

\* Payloads of inbound messages, by what JSON.parse makes of them (app.js:271):
\*   parse = "throws"  not JSON
\*   parse = "null"    the JSON value null
\*   parse = "scalar"  a JSON number/string/boolean (data.type is undefined)
\*   parse = "object"  an object with the given type and chunk
ClientMessages ==
    { [parse |-> p, type |-> "none", chunk |-> "missing", b64len |-> 0] :
        p \in {"throws", "null", "scalar"} }
    \cup { [parse |-> "object", type |-> "other", chunk |-> "missing", b64len |-> 0] }
    \cup { [parse |-> "object", type |-> "audio", chunk |-> c, b64len |-> 0] :
             c \in {"missing", "number"} }
    \cup { [parse |-> "object", type |-> "audio", chunk |-> "string", b64len |-> n] :
             n \in ChunkB64Lens }

----------------------------------------------------------------------------
(* Pure helpers *)

\* Buffer.from(str, 'base64').length for a string of n base64 characters
\* (app.js:278): every 4 characters give 3 bytes, a tail of 2 gives 1, of 3 gives 2.
Base64DecodedLength(n) == (n * 3) \div 4

\* ws.send of one message on an OPEN socket: the model keeps the last message
\* sent and counts the messages by kind.
WsSend(S, msg) ==
    [S EXCEPT !.lastOut = msg,
              !.sentErrors = @ + (IF msg.type = "error" THEN 1 ELSE 0),
              !.sentFatal = @ + (IF msg.type = "error" /\ msg.fatal THEN 1 ELSE 0),
              !.sentSummaries = @ + (IF msg.type = "speakerSummary" THEN 1 ELSE 0)]

\* app.js:62-79
sendError(S, errorType, message, fatal) ==
    LET S1 == IF S.readyState = "OPEN"
              THEN WsSend(S, [type |-> "error", error |-> errorType,
                              message |-> message, fatal |-> fatal])
              ELSE S
    IN IF fatal /\ S1.readyState = "OPEN"
       THEN [S1 EXCEPT !.readyState = "CLOSING"]     \* ws.close(1011, ...)
       ELSE S1

\* app.js:89-133, the error code and text reported for err
ErrorReport(err) ==
    IF err.name = TRANSCRIBE_ERRORS.EXPIRED_TOKEN
      THEN <<"TOKEN_EXPIRED", "AWS credentials have expired">>
    ELSE IF err.code = TRANSCRIBE_ERRORS.STREAM_CLOSED
      THEN <<"STREAM_CLOSED", "Audio stream closed prematurely">>
    ELSE IF err.name = TRANSCRIBE_ERRORS.SPEAKER_NOT_SUPPORTED
      THEN <<"SPEAKER_NOT_SUPPORTED", "Speaker diarization not supported in this region">>
    ELSE IF err.name = TRANSCRIBE_ERRORS.BAD_REQUEST
      THEN <<"BAD_REQUEST", "Invalid transcription request parameters">>
    ELSE IF err.name = TRANSCRIBE_ERRORS.CONFLICT
      THEN <<"CONFLICT", "Conflicting transcription operation">>
    ELSE IF err.name = TRANSCRIBE_ERRORS.LIMIT_EXCEEDED
      THEN <<"LIMIT_EXCEEDED", "Transcription request rate limit exceeded">>
    ELSE IF err.name = TRANSCRIBE_ERRORS.SERVICE_UNAVAILABLE
      THEN <<"SERVICE_UNAVAILABLE", "Transcription service unavailable">>
    ELSE IF err.name = TRANSCRIBE_ERRORS.INTERNAL_FAILURE
      THEN <<"INTERNAL_FAILURE", "Internal AWS service failure">>
    ELSE <<"TRANSCRIPTION_FAILED", "Failed to process audio stream">>

\* app.js:89-133, the effect on the closure: every branch is sendError(..., true)
handleTranscribeError(S, err) ==
    sendError(S, ErrorReport(err)[1], ErrorReport(err)[2], TRUE)

\* app.js:92-95, the effect on the module-level client: createTranscribeClient()
\* makes a new client object and assigns it to transcribeClient.
RecreatesClient(err) == err.name = TRANSCRIBE_ERRORS.EXPIRED_TOKEN

\* Mutant of ShouldRetry: the attempt counter is not consulted
ShouldRetryEveryTime(err, attempt) ==
    err.name = TRANSCRIBE_ERRORS.EXPIRED_TOKEN

\* app.js:224
ShouldRetry(err, attempt) ==
    err.name = TRANSCRIBE_ERRORS.EXPIRED_TOKEN /\ attempt = 1

\* app.js:229-231
Finally(S) == [S EXCEPT !.isTranscribing = FALSE]

\* Mutant of LeaveStream: the failed stream is kept
LeaveStreamOpen(S) == S

\* app.js:158-221: control leaves the for await loop of the current attempt (by
\* an exception, by break, or because the stream is exhausted), or send() has
\* rejected: the event stream of this attempt is over.
LeaveStream(S) == [S EXCEPT !.streams[S.attempt] = "closed"]

\* app.js:136-156 up to the await: the audio generator of this attempt is
\* created, the flag is raised and transcribeClient.send(command) is called.
StartStreamSync(S, attempt, client) ==
    [S EXCEPT !.attempt = attempt,
              !.gen[attempt] = "idle",
              !.isTranscribing = TRUE,
              !.streams[attempt] = "opening",
              !.usedClient = client,
              !.opened = @ + 1,
              !.pc = "opening"]

----------------------------------------------------------------------------
(* Initial state *)

\* app.js:49-60, 293: the closure before startStream() runs
NewSession ==
    [ pc              |-> "new",
      attempt         |-> 0,
      transcribeStream|-> None,
      audioInputBuffer|-> << >>,
      isTranscribing  |-> FALSE,
      isClientConnected |-> TRUE,
      currentSpeaker  |-> None,
      speakerSegments |-> << >>,
      speakerColors   |-> << >>,
      nextColorIndex  |-> 0,
      heartbeatInterval |-> TRUE,
      readyState      |-> "OPEN",
      \* the backend side
      streams         |-> [a \in 1..2 |-> "none"],
      gen             |-> [a \in 1..2 |-> "none"],
      aborted         |-> {},
      usedClient      |-> 0,
      \* pending callbacks
      stopPending     |-> 0,
      closeEmitted    |-> FALSE,
      errorEmitted    |-> FALSE,
      \* history
      lastOut         |-> NoMsg,
      lastEvent       |-> NoMsg,
      snapshotMax     |-> << >>,
      sentErrors      |-> 0,
      sentFatal       |-> 0,
      sentSummaries   |-> 0,
      received        |-> 0,
      accepted        |-> << >>,
      yielded         |-> << >>,
      opened          |-> 0,
      seen            |-> << >> ]

\* app.js:11 and app.js:46-263: the client exists, every connection handler has
\* run to its end, so startStream() has run to its first await.
Init ==
    /\ transcribeClient = 0
    /\ sess = [s \in Sessions |-> StartStreamSync(NewSession, 1, 0)]

----------------------------------------------------------------------------
(* Speaker color registry and transcript enrichment *)

\* Mutant of getSpeakerColor: nextColorIndex++ is missing
getSpeakerColorNoIncrement(S, speakerLabel) ==
    IF speakerLabel \in DOMAIN S.speakerColors
    THEN S
    ELSE [S EXCEPT
            !.speakerColors =
                (speakerLabel :> colorPalette[(S.nextColorIndex % Len(colorPalette)) + 1]) @@ @]

\* app.js:81-87, the registry after getSpeakerColor(speakerLabel)
getSpeakerColor(S, speakerLabel) ==
    IF speakerLabel \in DOMAIN S.speakerColors
    THEN S
    ELSE [S EXCEPT
            !.speakerColors =
                (speakerLabel :> colorPalette[(S.nextColorIndex % Len(colorPalette)) + 1]) @@ @,
            !.nextColorIndex = @ + 1]

\* app.js:207, 250: segments.reduce((total, seg) => total + (seg.endTime - seg.startTime), 0)
RECURSIVE SumDuration(_)
SumDuration(segments) ==
    IF segments = << >> THEN 0
    ELSE (Head(segments).endTime - Head(segments).startTime) + SumDuration(Tail(segments))

\* app.js:251: segments.reduce((total, seg) => total + seg.words, 0)
RECURSIVE SumWords(_)
SumWords(segments) ==
    IF segments = << >> THEN 0
    ELSE Head(segments).words + SumWords(Tail(segments))

\* app.js:178-189: the event-level speaker
ProcessSpeaker(S, result) ==
    IF result.Speaker # None
    THEN LET S1 == [S EXCEPT !.currentSpeaker = result.Speaker]
         IN IF result.Speaker \in DOMAIN S1.speakerSegments
            THEN S1
            ELSE LET S2 == getSpeakerColor(S1, result.Speaker)
                 IN [S2 EXCEPT !.speakerSegments =
                        (result.Speaker :>
                            [speaker  |-> result.Speaker,
                             segments |-> << >>,
                             color    |-> S2.speakerColors[result.Speaker]]) @@ @]
    ELSE S

\* app.js:187-188 (the fields stay null when the event has no speaker, 171-172)
MessageSpeaker(S, result) ==
    IF result.Speaker # None THEN S.currentSpeaker ELSE None

MessageSpeakerColor(S, result) ==
    IF result.Speaker # None THEN S.speakerSegments[S.currentSpeaker].color ELSE NoColor

\* app.js:198
ItemSpeaker(S, item) ==
    IF item.Speaker # None THEN item.Speaker ELSE S.currentSpeaker

\* app.js:199, after getSpeakerColor has run for an item that has a speaker
ItemSpeakerColor(S, item, messageSpeakerColor) ==
    IF item.Speaker # None THEN S.speakerColors[item.Speaker] ELSE messageSpeakerColor

\* app.js:193-200: Items.map, left to right; getSpeakerColor may extend the registry.
RECURSIVE MapItems(_, _, _)
MapItems(S, items, messageSpeakerColor) ==
    IF items = << >>
    THEN [S |-> S, items |-> << >>]
    ELSE LET item == Head(items)
             S1   == IF item.Speaker # None THEN getSpeakerColor(S, item.Speaker) ELSE S
             out  == [content      |-> item.Content,
                      type         |-> item.Type,
                      startTime    |-> item.StartTime,
                      endTime      |-> item.EndTime,
                      speaker      |-> ItemSpeaker(S1, item),
                      speakerColor |-> ItemSpeakerColor(S1, item, messageSpeakerColor)]
             rest == MapItems(S1, Tail(items), messageSpeakerColor)
         IN [S |-> rest.S, items |-> <<out>> \o rest.items]

\* app.js:204-208: Object.values(speakerSegments).map(...), as a set of entries
SegmentSnapshot(S) ==
    { [speaker  |-> S.speakerSegments[k].speaker,
       color    |-> S.speakerSegments[k].color,
       duration |-> SumDuration(S.speakerSegments[k].segments)] :
        k \in DOMAIN S.speakerSegments }

\* app.js:247-252
SummaryEntries(S) ==
    { [speaker   |-> S.speakerSegments[k].speaker,
       color     |-> S.speakerSegments[k].color,
       duration  |-> SumDuration(S.speakerSegments[k].segments),
       wordCount |-> SumWords(S.speakerSegments[k].segments)] :
        k \in DOMAIN S.speakerSegments }

\* The identities of an event in the order the loop body meets them: the
\* event-level speaker (app.js:178), then the items' speakers (app.js:193).
RECURSIVE ItemIdentities(_)
ItemIdentities(items) ==
    IF items = << >> THEN << >>
    ELSE (IF Head(items).Speaker # None THEN <<Head(items).Speaker>> ELSE << >>)
         \o ItemIdentities(Tail(items))

EventIdentities(result) ==
    (IF result.Speaker # None THEN <<result.Speaker>> ELSE << >>)
    \o ItemIdentities(result.Items)

\* History: the distinct identities in first-seen order, extended by ids.
RECURSIVE Observe(_, _)
Observe(seen, ids) ==
    IF ids = << >> THEN seen
    ELSE Observe(IF \E k \in 1..Len(seen) : seen[k] = Head(ids)
                 THEN seen ELSE Append(seen, Head(ids)),
                 Tail(ids))

\* History: for every speaker of a snapshot sent so far, the largest duration
\* a snapshot has reported for it.
SnapshotMax(old, snapshot) ==
    [id \in DOMAIN old \cup {e.speaker : e \in snapshot} |->
        LET before == IF id \in DOMAIN old THEN {old[id]} ELSE {}
            now    == {e.duration : e \in {x \in snapshot : x.speaker = id}}
        IN CHOOSE d \in before \cup now : \A o \in before \cup now : o <= d]

\* app.js:161-217: one TranscriptEvent whose Results[0].Alternatives[0] exists
ProcessResult(S, result) ==
    LET S1  == ProcessSpeaker(S, result)
        spk == MessageSpeaker(S1, result)
        col == MessageSpeakerColor(S1, result)
        m   == MapItems(S1, result.Items, col)
        S2  == [m.S EXCEPT !.seen = Observe(@, EventIdentities(result))]
        message == [type            |-> "transcript",
                    text            |-> result.Transcript,
                    isPartial       |-> result.IsPartial,
                    speaker         |-> spk,
                    speakerColor    |-> col,
                    items           |-> m.items,
                    speakerSegments |-> SegmentSnapshot(S2)]
    IN IF S2.readyState = "OPEN"
       THEN [WsSend(S2, message) EXCEPT
                !.lastEvent = result,
                !.snapshotMax = SnapshotMax(@, message.speakerSegments)]
       ELSE S2

\* Transcript events of the backend.  Identities are opaque to the code (it only
\* compares them), so a new identity is always the next unused number, and an
\* identity seen before is the oldest or the newest of them.
Identities(known, maxSpeakers) ==
    {None} \cup ({1, known, known + 1} \cap (1..maxSpeakers))

ItemTypes == {"pronunciation", "punctuation"}

Max(a, b) == IF a > b THEN a ELSE b

RECURSIVE ItemSeqs(_, _, _, _)
ItemSeqs(known, len, maxSpeakers, types) ==
    {<< >>} \cup
    (IF len = 0 THEN {}
     ELSE UNION { { <<[Content   |-> IF ty = "pronunciation" THEN "word" ELSE ".",
                       Type      |-> ty,
                       StartTime |-> 0,
                       EndTime   |-> 1,
                       Speaker   |-> sp]>> \o rest :
                    rest \in ItemSeqs(Max(known, sp), len - 1, maxSpeakers, types) } :
                  sp \in Identities(known, maxSpeakers), ty \in types })

\* The events that carry a result (Results[0].Alternatives[0] exists, app.js:163)
TranscriptEvents(known, maxSpeakers, types, partials) ==
    UNION { { [hasResult |-> TRUE, Transcript |-> "text", IsPartial |-> p,
               Speaker |-> sp, Items |-> items] :
              items \in ItemSeqs(Max(known, sp), MaxItems, maxSpeakers, types) } :
            sp \in Identities(known, maxSpeakers), p \in partials }

----------------------------------------------------------------------------
(* Actions of connection s *)

Set(s, S) == sess' = [sess EXCEPT ![s] = S]

\* app.js:156: transcribeClient.send(command) resolves; the for await loop starts
\* waiting for the first event (app.js:158).
SendResolved(s) ==
    LET S == sess[s] IN
    /\ S.pc = "opening"
    /\ Set(s, [S EXCEPT !.transcribeStream = S.attempt,
                        !.streams[S.attempt] = "open",
                        !.pc = "streaming"])
    /\ UNCHANGED transcribeClient

\* app.js:156 rejects or the event stream throws (app.js:158): catch (221-228),
\* then either the backoff timer is started (226) or finally runs (229-231).
StreamFailed(s, err) ==
    LET S  == sess[s]
        S1 == LeaveStream(S)
        S2 == handleTranscribeError(S1, err)
    IN
    /\ S.pc \in {"opening", "streaming"}
    /\ transcribeClient' = IF RecreatesClient(err) THEN transcribeClient + 1
                           ELSE transcribeClient
    /\ IF ShouldRetry(err, S.attempt)
       THEN Set(s, [S2 EXCEPT !.pc = "backoff"])
       ELSE Set(s, [Finally(S2) EXCEPT !.pc = "done"])

\* app.js:226-227 then 229-231: the 1 s timer fires, startStream(attempt + 1)
\* runs to its await, and the finally block of the first call runs.
BackoffElapsed(s) ==
    LET S == sess[s] IN
    /\ S.pc = "backoff"
    /\ Set(s, Finally(StartStreamSync(S, S.attempt + 1, transcribeClient)))
    /\ UNCHANGED transcribeClient

\* Mutant of TranscriptEvent: the check of app.js:159 is missing
TranscriptEventNoBreak(s, event) ==
    LET S == sess[s] IN
    /\ S.pc = "streaming"
    /\ IF event.hasResult
       THEN Set(s, ProcessResult(S, event))
       ELSE UNCHANGED sess
    /\ UNCHANGED transcribeClient

\* app.js:158-220: the backend delivers one event.  The break at 159 leaves the
\* loop (which closes the event stream) and finally runs.
TranscriptEvent(s, event) ==
    LET S == sess[s] IN
    /\ S.pc = "streaming"
    /\ IF ~S.isTranscribing \/ ~S.isClientConnected
       THEN Set(s, [Finally(LeaveStream(S)) EXCEPT !.pc = "done"])
       ELSE IF event.hasResult
            THEN Set(s, ProcessResult(S, event))
            ELSE UNCHANGED sess
    /\ UNCHANGED transcribeClient

\* app.js:158, 229-231: the event stream ends; the loop exits and finally runs.
StreamEnded(s) ==
    LET S == sess[s] IN
    /\ S.pc = "streaming"
    /\ Set(s, [Finally(LeaveStream(S)) EXCEPT !.pc = "done"])
    /\ UNCHANGED transcribeClient

\* The backend calls next() on the audio generator of attempt a (app.js:143):
\* it does so while the request of that attempt is in flight or streaming.
AudioPull(s, a) ==
    LET S == sess[s] IN
    /\ S.gen[a] = "idle"
    /\ S.streams[a] \in {"opening", "open"}
    /\ Set(s, [S EXCEPT !.gen[a] = "running"])
    /\ UNCHANGED transcribeClient

\* Mutant of AudioPoll: the loop condition of app.js:144 tests isClientConnected only
AudioPollIgnoresTranscribing(s, a) ==
    LET S == sess[s] IN
    /\ S.gen[a] = "running"
    /\ IF S.isClientConnected
       THEN IF Len(S.audioInputBuffer) > 0
            THEN Set(s, [S EXCEPT !.audioInputBuffer = Tail(@),
                                  !.yielded = Append(@, Head(S.audioInputBuffer)),
                                  !.gen[a] = "idle"])
            ELSE UNCHANGED sess
       ELSE Set(s, [S EXCEPT !.gen[a] = "done"])
    /\ UNCHANGED transcribeClient

\* Mutant of Shift: pop() in place of shift()
ShiftAsPop(buffer) ==
    [chunk |-> buffer[Len(buffer)], rest |-> SubSeq(buffer, 1, Len(buffer) - 1)]

\* app.js:146: audioInputBuffer.shift() removes and returns the oldest chunk
Shift(buffer) == [chunk |-> Head(buffer), rest |-> Tail(buffer)]

\* app.js:144-151: one evaluation of the loop condition by a generator that has
\* been asked for a value: yield the oldest chunk, or sleep 100 ms and come
\* back here, or return.
AudioPoll(s, a) ==
    LET S == sess[s] IN
    /\ S.gen[a] = "running"
    /\ IF S.isClientConnected /\ S.isTranscribing
       THEN IF Len(S.audioInputBuffer) > 0
            THEN Set(s, [S EXCEPT !.audioInputBuffer = Shift(@).rest,
                                  !.yielded = Append(@, Shift(S.audioInputBuffer).chunk),
                                  !.gen[a] = "idle"])
            ELSE UNCHANGED sess
       ELSE Set(s, [S EXCEPT !.gen[a] = "done"])
    /\ UNCHANGED transcribeClient

\* Mutant of MessageOutcome: the size check of app.js:280 is missing
MessageOutcomeNoSizeCheck(S, m) ==
    IF ~S.isTranscribing THEN "Transcription not active"
    ELSE IF m.parse = "throws" THEN "Unexpected token in JSON"
    ELSE IF m.parse = "null" THEN "Cannot read properties of null"
    ELSE IF m.parse = "scalar" THEN "ignore"
    ELSE IF m.type = "audio"
         THEN IF m.chunk # "string" \/ m.b64len = 0
              THEN "Invalid audio chunk format"
              ELSE "push"
         ELSE "ignore"

\* Mutant of MessageOutcome: the format check of app.js:274 is missing
MessageOutcomeNoFormatCheck(S, m) ==
    IF ~S.isTranscribing THEN "Transcription not active"
    ELSE IF m.parse = "throws" THEN "Unexpected token in JSON"
    ELSE IF m.parse = "null" THEN "Cannot read properties of null"
    ELSE IF m.parse = "scalar" THEN "ignore"
    ELSE IF m.type = "audio"
         THEN IF Base64DecodedLength(m.b64len) > MaxChunkBytes
              THEN "Audio chunk too large"
              ELSE "push"
         ELSE "ignore"

\* Mutant of MessageOutcome: the check of app.js:267 is missing
MessageOutcomeNoActiveCheck(S, m) ==
    IF m.parse = "throws" THEN "Unexpected token in JSON"
    ELSE IF m.parse = "null" THEN "Cannot read properties of null"
    ELSE IF m.parse = "scalar" THEN "ignore"
    ELSE IF m.type = "audio"
         THEN IF m.chunk # "string" \/ m.b64len = 0
              THEN "Invalid audio chunk format"
              ELSE IF Base64DecodedLength(m.b64len) > MaxChunkBytes
                   THEN "Audio chunk too large"
                   ELSE "push"
         ELSE "ignore"

\* app.js:266-285: what the try block does with message m:
\* "push", "ignore", or the message of the Error it throws.
MessageOutcome(S, m) ==
    IF ~S.isTranscribing THEN "Transcription not active"
    ELSE IF m.parse = "throws" THEN "Unexpected token in JSON"
    ELSE IF m.parse = "null" THEN "Cannot read properties of null"
    ELSE IF m.parse = "scalar" THEN "ignore"
    ELSE IF m.type = "audio"
         THEN IF m.chunk # "string" \/ m.b64len = 0
              THEN "Invalid audio chunk format"
              ELSE IF Base64DecodedLength(m.b64len) > MaxChunkBytes
                   THEN "Audio chunk too large"
                   ELSE "push"
         ELSE "ignore"

\* app.js:284
Push(buffer, chunk) == Append(buffer, chunk)

\* app.js:265-290
OnMessage(s, m) ==
    LET S  == sess[s]
        S0 == [S EXCEPT !.received = @ + 1]
        o  == MessageOutcome(S, m)
        audioChunk == [seq |-> S.received + 1, len |-> Base64DecodedLength(m.b64len)]
    IN
    /\ S.received < MaxMessages
    /\ ~S.closeEmitted /\ ~S.errorEmitted
    /\ IF o = "push"
       THEN Set(s, [S0 EXCEPT !.audioInputBuffer = Push(@, audioChunk),
                              !.accepted = Append(@, audioChunk)])
       ELSE IF o = "ignore"
            THEN Set(s, S0)
            ELSE Set(s, sendError(S0, "INVALID_MESSAGE", o, FALSE))
    /\ UNCHANGED transcribeClient

\* app.js:243-255
SendSummary(S) ==
    IF S.readyState = "OPEN" /\ DOMAIN S.speakerSegments # {}
    THEN WsSend(S, [type |-> "speakerSummary", speakers |-> SummaryEntries(S)])
    ELSE S

\* app.js:234-260 up to the await of 239 (or to the end when there is none).
\* abort is the outcome of TranscriptResultStream.controller.abort(): it
\* "returns" (the await suspends) or "throws" (caught at 256).
stopTranscription(S, abort) ==
    LET S1 == [S EXCEPT !.isTranscribing = FALSE] IN
    IF S1.transcribeStream # None
    THEN IF abort = "throws"
         THEN sendError(S1, "STOP_ERROR", "Error stopping transcription", FALSE)
         ELSE [S1 EXCEPT !.aborted = @ \cup {S1.transcribeStream},
                         !.stopPending = @ + 1]
    ELSE SendSummary(S1)

\* app.js:240-255: stopTranscription resumes after the await of 239
StopResumed(s) ==
    LET S == sess[s] IN
    /\ S.stopPending > 0
    /\ Set(s, SendSummary([S EXCEPT !.transcribeStream = None,
                                    !.stopPending = @ - 1]))
    /\ UNCHANGED transcribeClient

\* app.js:305-310.  The socket is CLOSED when 'close' is emitted.
OnClose(s, abort) ==
    LET S == sess[s] IN
    /\ ~S.closeEmitted
    /\ Set(s, stopTranscription([S EXCEPT !.closeEmitted = TRUE,
                                          !.readyState = "CLOSED",
                                          !.isClientConnected = FALSE,
                                          !.heartbeatInterval = FALSE], abort))
    /\ UNCHANGED transcribeClient

\* app.js:312-317.  'error' is emitted once, before 'close'; the source does
\* not fix whether the socket is still OPEN or already CLOSING at that time.
OnError(s, state, abort) ==
    LET S == sess[s] IN
    /\ ~S.closeEmitted /\ ~S.errorEmitted
    /\ state \in {S.readyState, "CLOSING"}
    /\ Set(s, stopTranscription([S EXCEPT !.errorEmitted = TRUE,
                                          !.readyState = state,
                                          !.isClientConnected = FALSE,
                                          !.heartbeatInterval = FALSE], abort))
    /\ UNCHANGED transcribeClient

\* app.js:293-299
HeartbeatTick(s) ==
    LET S == sess[s] IN
    /\ S.heartbeatInterval
    /\ IF S.readyState = "OPEN"
       THEN UNCHANGED sess                                   \* ws.ping()
       ELSE Set(s, [S EXCEPT !.heartbeatInterval = FALSE])   \* clearInterval
    /\ UNCHANGED transcribeClient

----------------------------------------------------------------------------
(* Specifications *)

AbortOutcomes == {"returns", "throws"}

\* The backend stream of connection s: open, fail, retry, end.  An event
\* without a result only runs the check of app.js:159.
NoResult == [hasResult |-> FALSE, Transcript |-> "", IsPartial |-> FALSE,
             Speaker |-> None, Items |-> << >>]

StreamStep(s) ==
    \/ SendResolved(s)
    \/ \E err \in BackendErrors : StreamFailed(s, err)
    \/ BackoffElapsed(s)
    \/ TranscriptEvent(s, NoResult)
    \/ StreamEnded(s)

\* The socket of connection s: error, close, the resumption of
\* stopTranscription, the heartbeat timer.
SocketStep(s) ==
    \/ \E o \in AbortOutcomes : OnClose(s, o)
    \/ \E st \in {"OPEN", "CLOSING"}, o \in AbortOutcomes : OnError(s, st, o)
    \/ StopResumed(s)
    \/ HeartbeatTick(s)

\* The audio path of connection s: inbound messages and the audio generators.
AudioStep(s) ==
    \/ \E m \in ClientMessages : OnMessage(s, m)
    \/ \E a \in 1..2 : AudioPull(s, a)
    \/ \E a \in 1..2 : AudioPoll(s, a)

\* The transcript path of connection s: events that carry a result.
TranscriptStep(s, maxSpeakers, types, partials) ==
    \E e \in TranscriptEvents(Len(sess[s].seen), maxSpeakers, types, partials) :
        TranscriptEvent(s, e)

\* One connection, every handler and every outcome of its environment.
Next == StreamStep(1) \/ SocketStep(1) \/ AudioStep(1) \/ TranscriptStep(1, MaxSpeakers, ItemTypes, BOOLEAN)
Spec == Init /\ [][Next]_vars

\* One connection whose backend sends no transcripts.
NextAudio == StreamStep(1) \/ SocketStep(1) \/ AudioStep(1)
SpecAudio == Init /\ [][NextAudio]_vars

\* SpecAudio with the polling loop of each audio generator scheduled fairly:
\* its wait is a 100 ms timer (app.js:149), which the event loop fires.
SpecAudioFair ==
    Init /\ [][NextAudio]_vars /\ \A a \in 1..2 : WF_vars(AudioPoll(1, a))

\* One connection whose client sends no messages.
NextTranscript == StreamStep(1) \/ SocketStep(1) \/ TranscriptStep(1, MaxSpeakers, ItemTypes, BOOLEAN)
SpecTranscript == Init /\ [][NextTranscript]_vars

\* One connection whose client sends no messages and whose backend sends
\* partial and final results without items, of two different texts, from up to
\* MaxOrderSpeakers speakers.
OrderEvents(s) ==
    { [hasResult |-> TRUE, Transcript |-> t, IsPartial |-> p, Speaker |-> sp,
       Items |-> << >>] :
         t \in {"one", "two"}, p \in BOOLEAN,
         sp \in Identities(Len(sess[s].seen), MaxOrderSpeakers) }
NextOrder ==
    StreamStep(1) \/ SocketStep(1) \/ \E e \in OrderEvents(1) : TranscriptEvent(1, e)
SpecOrder == Init /\ [][NextOrder]_vars

\* One connection that only receives transcripts: final results of words, from
\* up to MaxRegistrySpeakers speakers.
NextRegistry ==
    SendResolved(1) \/ TranscriptStep(1, MaxRegistrySpeakers, {"pronunciation"}, {FALSE})
SpecRegistry == Init /\ [][NextRegistry]_vars

\* Two connections, their backend streams and sockets only.
NextTwo == \E s \in Sessions : StreamStep(s) \/ SocketStep(s)
SpecTwo == Init /\ [][NextTwo]_vars

----------------------------------------------------------------------------
(* Properties *)

IsPrefix(a, b) ==
    /\ Len(a) <= Len(b)
    /\ \A i \in 1..Len(a) : a[i] = b[i]

\* The messages of ClientMessages that are audio messages with a string chunk
\* decoding to more than 10 KiB
Oversize ==
    { m \in ClientMessages :
        /\ m.parse = "object" /\ m.type = "audio" /\ m.chunk = "string"
        /\ Base64DecodedLength(m.b64len) > 10 * 1024 }

\* The messages of ClientMessages that are not {type: "audio", chunk: <string>}
NotAudioShape ==
    { m \in ClientMessages :
        ~(m.parse = "object" /\ m.type = "audio" /\ m.chunk = "string") }

\* Those of them the handler throws on: not JSON, null, or an audio message
\* whose chunk is missing or no string
Malformed ==
    { m \in NotAudioShape : m.parse \in {"throws", "null"} \/ m.type = "audio" }

\* C1: the chunks yielded to the backend are, in order, a prefix of the chunks
\* accepted from the client in arrival order, and none is yielded twice.
OrderPreserved ==
    LET S == sess[1] IN
    /\ IsPrefix(S.yielded, S.accepted)
    /\ \A i, j \in 1..Len(S.yielded) : i # j => S.yielded[i] # S.yielded[j]

\* C1 witness: two chunks were accepted and both were yielded.
OrderPreservedWitness ==
    LET S == sess[1] IN Len(S.yielded) = 2 /\ S.yielded[1].seq < S.yielded[2].seq

\* C2 as stated: an oversize audio message leaves the buffer unchanged and is
\* answered with the classification audio-chunk-too-large.
OversizeRejectedAsTooLarge ==
    [][\A m \in Oversize :
         OnMessage(1, m) =>
            /\ sess'[1].audioInputBuffer = sess[1].audioInputBuffer
            /\ sess'[1].sentErrors = sess[1].sentErrors + 1
            /\ sess'[1].lastOut.type = "error"
            /\ sess'[1].lastOut.error = "audio-chunk-too-large"]_vars

\* C2 amended: an oversize audio message never reaches the buffer; on an OPEN
\* socket it is answered with one non-fatal error of classification
\* INVALID_MESSAGE (message "Audio chunk too large" while transcribing,
\* "Transcription not active" otherwise); on a socket that is not OPEN nothing
\* is sent.
OversizeRejected ==
    [][\A m \in Oversize :
         OnMessage(1, m) =>
            /\ sess'[1].audioInputBuffer = sess[1].audioInputBuffer
            /\ sess'[1].accepted = sess[1].accepted
            /\ IF sess[1].readyState = "OPEN"
               THEN /\ sess'[1].sentErrors = sess[1].sentErrors + 1
                    /\ sess'[1].lastOut =
                          [type    |-> "error",
                           error   |-> "INVALID_MESSAGE",
                           message |-> IF sess[1].isTranscribing
                                       THEN "Audio chunk too large"
                                       ELSE "Transcription not active",
                           fatal   |-> FALSE]
               ELSE /\ sess'[1].sentErrors = sess[1].sentErrors
                    /\ sess'[1].lastOut = sess[1].lastOut]_vars

\* C2 witness: an oversize chunk was rejected while transcribing.
OversizeRejectedWitness ==
    LET S == sess[1] IN
    /\ S.lastOut.type = "error"
    /\ S.lastOut.message = "Audio chunk too large"
    /\ S.isTranscribing

\* C3: the k-th distinct identity seen has the color palette[(k-1) mod 8], and
\* in every transcript sent each identity of the event, at event level and at
\* item level, carries the color of its rank.
RankOf(seen, id) == CHOOSE k \in 1..Len(seen) : seen[k] = id
ColorOfRank(k) == colorPalette[((k - 1) % 8) + 1]

SpeakerColorStable ==
    LET S == sess[1]
        e == S.lastEvent
        m == S.lastOut
    IN
    /\ \A k \in 1..Len(S.seen) :
          /\ S.seen[k] \in DOMAIN S.speakerColors
          /\ S.speakerColors[S.seen[k]] = ColorOfRank(k)
    /\ \A id \in DOMAIN S.speakerSegments :
          S.speakerSegments[id].color = ColorOfRank(RankOf(S.seen, id))
    /\ m.type = "transcript" =>
          /\ e.Speaker # None =>
                /\ m.speaker = e.Speaker
                /\ m.speakerColor = ColorOfRank(RankOf(S.seen, e.Speaker))
          /\ \A i \in 1..Len(e.Items) :
                e.Items[i].Speaker # None =>
                   /\ m.items[i].speaker = e.Items[i].Speaker
                   /\ m.items[i].speakerColor = ColorOfRank(RankOf(S.seen, e.Items[i].Speaker))

\* C3 witness: nine identities were seen, the ninth has the first color again,
\* and the last transcript names the first identity once more, at item level.
SpeakerColorStableWitness ==
    LET S == sess[1] IN
    /\ Len(S.seen) >= 9
    /\ S.speakerColors[S.seen[9]] = colorPalette[1]
    /\ S.lastOut.type = "transcript"
    /\ Len(S.lastEvent.Items) > 0
    /\ S.lastEvent.Items[1].Speaker = S.seen[1]
    /\ S.lastOut.items[1].speakerColor = colorPalette[1]

\* C4 as stated: once a fatal error message was sent, the transcribing flag is
\* false and it is the only fatal error message of the session.
FatalTermination ==
    LET S == sess[1] IN
    S.sentFatal > 0 => ~S.isTranscribing /\ S.sentFatal = 1

\* C5: a session calls send() at most twice; only a credential expiry of the
\* first attempt starts the backoff, and after a failure of the second attempt
\* the session is done.
RetryCap ==
    LET S == sess[1] IN
    /\ S.opened <= 2
    /\ S.opened = S.attempt
    /\ S.pc = "backoff" => S.attempt = 1 /\ S.streams[1] = "closed"
    /\ S.attempt = 2 /\ S.streams[2] = "closed" => S.pc = "done"

\* C5 witness: the credentials expired twice (the client was recreated twice)
\* and the session is done after two opens.
RetryCapWitness ==
    LET S == sess[1] IN
    transcribeClient = 2 /\ S.opened = 2 /\ S.pc = "done"

\* C6 as stated: once teardown has run to its end and a speaker segment
\* exists, exactly one speakerSummary was sent.
SummaryOnTeardown ==
    LET S == sess[1] IN
    (S.closeEmitted \/ S.errorEmitted) /\ S.stopPending = 0
        /\ DOMAIN S.speakerSegments # {}
    => S.sentSummaries = 1

\* C7 as stated: a speakerSummary lists every distinct identity seen in the
\* session exactly once, and no listed duration is smaller than one an earlier
\* snapshot reported for that speaker (snapshots carry no word count; the
\* listed word count is at least 0).
SummaryComplete ==
    LET S == sess[1]
        m == S.lastOut
    IN m.type = "speakerSummary" =>
          /\ \A k \in 1..Len(S.seen) :
                Cardinality({e \in m.speakers : e.speaker = S.seen[k]}) = 1
          /\ \A e \in m.speakers :
                /\ e.wordCount >= 0
                /\ e.speaker \in DOMAIN S.snapshotMax =>
                      e.duration >= S.snapshotMax[e.speaker]

\* C8 as stated: while transcribing, every message that is not
\* {type: "audio", chunk: <string>} is answered with exactly one non-fatal
\* error, and the connection stays open.
InvalidMessageReported ==
    [][\A m \in NotAudioShape :
         OnMessage(1, m) /\ sess[1].isTranscribing =>
            /\ sess'[1].sentErrors = sess[1].sentErrors + 1
            /\ sess'[1].lastOut.type = "error"
            /\ ~sess'[1].lastOut.fatal
            /\ sess'[1].readyState = "OPEN"
            /\ sess'[1].isTranscribing]_vars

\* C8 amended: while transcribing on an OPEN socket, a message that is not
\* JSON, is null, or is an audio message without a string chunk is answered
\* with exactly one INVALID_MESSAGE error with fatal=false; any other message
\* that is not an audio message is ignored without an answer; either way the
\* session keeps transcribing with the socket OPEN and the buffer unchanged.
InvalidMessageHandled ==
    [][\A m \in NotAudioShape :
         OnMessage(1, m) /\ sess[1].isTranscribing /\ sess[1].readyState = "OPEN" =>
            /\ IF m \in Malformed
               THEN /\ sess'[1].sentErrors = sess[1].sentErrors + 1
                    /\ sess'[1].lastOut.type = "error"
                    /\ sess'[1].lastOut.error = "INVALID_MESSAGE"
                    /\ ~sess'[1].lastOut.fatal
               ELSE /\ sess'[1].sentErrors = sess[1].sentErrors
                    /\ sess'[1].lastOut = sess[1].lastOut
            /\ sess'[1].readyState = "OPEN"
            /\ sess'[1].isTranscribing
            /\ sess'[1].audioInputBuffer = sess[1].audioInputBuffer]_vars

\* C8 witness: an audio message without a string chunk was answered while
\* transcribing, and the session goes on.
InvalidMessageHandledWitness ==
    LET S == sess[1] IN
    /\ S.lastOut.type = "error"
    /\ S.lastOut.message = "Invalid audio chunk format"
    /\ S.isTranscribing /\ S.readyState = "OPEN"

\* C9: at most one backend stream of the session is open or being opened.
Active(S) == { a \in 1..2 : S.streams[a] \in {"opening", "open"} }

AtMostOneActiveStream ==
    Cardinality(Active(sess[1])) <= 1

\* C9 witness: the retried stream is being opened or open, after the first
\* one failed.
AtMostOneActiveStreamWitness ==
    LET S == sess[1] IN
    S.streams[1] = "closed" /\ S.streams[2] \in {"opening", "open"}

\* C10 as stated: a step of one connection changes neither the closure of the
\* other connection nor the module-level client the other connection sends with.
SessionsIndependent ==
    [][\A s \in Sessions :
         StreamStep(s) \/ SocketStep(s) =>
            /\ \A o \in Sessions \ {s} : sess'[o] = sess[o]
            /\ transcribeClient' = transcribeClient]_vars

\* C11 as stated: while the retried backend stream is being opened or is open,
\* the transcribing flag is true.
ReconnectStreaming ==
    LET S == sess[1] IN
    S.attempt = 2 /\ S.streams[2] \in {"opening", "open"} => S.isTranscribing

\* The variables of the closure of a connection (app.js:49-56, 293) and the
\* state of its socket
Closure(S) ==
    << S.transcribeStream, S.audioInputBuffer, S.isTranscribing,
       S.isClientConnected, S.currentSpeaker, S.speakerSegments,
       S.speakerColors, S.nextColorIndex, S.heartbeatInterval, S.readyState >>

\* C12 as stated: a message received while the transcribing flag is false is
\* answered with one error with fatal=false, changes no variable of the
\* session and does not close the connection.
InactiveMessageReported ==
    [][\A m \in ClientMessages :
         OnMessage(1, m) /\ ~sess[1].isTranscribing =>
            /\ sess'[1].sentErrors = sess[1].sentErrors + 1
            /\ sess'[1].lastOut.type = "error"
            /\ ~sess'[1].lastOut.fatal
            /\ Closure(sess'[1]) = Closure(sess[1])]_vars

\* C12 amended: a message received while the transcribing flag is false
\* changes no variable of the session and does not change the socket state; on
\* an OPEN socket it is answered with exactly one INVALID_MESSAGE error with
\* fatal=false and the text "Transcription not active", on a socket that is no
\* longer OPEN nothing is sent.
InactiveMessageHandled ==
    [][\A m \in ClientMessages :
         OnMessage(1, m) /\ ~sess[1].isTranscribing =>
            /\ Closure(sess'[1]) = Closure(sess[1])
            /\ sess'[1].accepted = sess[1].accepted
            /\ sess'[1].sentFatal = sess[1].sentFatal
            /\ sess'[1].sentSummaries = sess[1].sentSummaries
            /\ IF sess[1].readyState = "OPEN"
               THEN /\ sess'[1].sentErrors = sess[1].sentErrors + 1
                    /\ sess'[1].lastOut =
                          [type    |-> "error",
                           error   |-> "INVALID_MESSAGE",
                           message |-> "Transcription not active",
                           fatal   |-> FALSE]
               ELSE /\ sess'[1].sentErrors = sess[1].sentErrors
                    /\ sess'[1].lastOut = sess[1].lastOut]_vars

\* C12 witness: the backend stream has ended, the socket is OPEN, and a
\* message was answered with "Transcription not active".
InactiveMessageHandledWitness ==
    LET S == sess[1] IN
    /\ S.lastOut.type = "error"
    /\ S.lastOut.message = "Transcription not active"
    /\ ~S.isTranscribing /\ S.readyState = "OPEN"
    /\ S.pc = "done" /\ S.received > 0

\* C13 as stated: when a transcript was sent, every pronunciation item of it
\* that is resolved to a speaker with a segment has been added to that
\* segment: the duration in the snapshot of the message is at least the
\* item's (end time - start time) and the segment's word count is at least 1.
SegmentsAccumulate ==
    LET S == sess[1]
        m == S.lastOut
    IN m.type = "transcript" =>
          \A i \in 1..Len(m.items) : \A e \in m.speakerSegments :
             m.items[i].type = "pronunciation" /\ e.speaker = m.items[i].speaker =>
                /\ e.duration >= m.items[i].endTime - m.items[i].startTime
                /\ SumWords(S.speakerSegments[e.speaker].segments) >= 1

\* C14 as stated: in the transcript sent last, every item's speaker is its own
\* speaker if it has one, else the current speaker, else none; and its
\* speakerColor is non-null exactly when its speaker is non-null, and is then
\* the registry color of that speaker.
ItemSpeakerResolved ==
    LET S == sess[1]
        e == S.lastEvent
        m == S.lastOut
    IN m.type = "transcript" =>
          \A i \in 1..Len(m.items) :
             /\ m.items[i].speaker = IF e.Items[i].Speaker # None
                                     THEN e.Items[i].Speaker
                                     ELSE S.currentSpeaker
             /\ (m.items[i].speakerColor # NoColor) <=> (m.items[i].speaker # None)
             /\ m.items[i].speaker # None =>
                   /\ m.items[i].speaker \in DOMAIN S.speakerColors
                   /\ m.items[i].speakerColor = S.speakerColors[m.items[i].speaker]

\* C15 as stated: once teardown has run to its end (after 'close' or 'error'),
\* an abort was requested for every backend stream that is being opened or is
\* open, and the session holds no stream handle.
StreamReleased ==
    LET S == sess[1] IN
    (S.closeEmitted \/ S.errorEmitted) /\ S.stopPending = 0 =>
        /\ \A a \in Active(S) : a \in S.aborted
        /\ S.transcribeStream = None

\* C16 as stated: the teardown that runs from 'close' after one has run from
\* 'error' sends no message, leaves the flags false and the heartbeat timer
\* cancelled, requests no abort of a stream whose abort was requested already,
\* and the session has sent at most one speakerSummary.
TeardownIdempotent ==
    [][\A o \in AbortOutcomes :
         OnClose(1, o) /\ sess[1].errorEmitted =>
            /\ sess'[1].lastOut = sess[1].lastOut
            /\ sess'[1].sentErrors = sess[1].sentErrors
            /\ sess'[1].sentSummaries = sess[1].sentSummaries
            /\ sess'[1].sentSummaries <= 1
            /\ ~sess'[1].isTranscribing
            /\ ~sess'[1].isClientConnected
            /\ ~sess'[1].heartbeatInterval
            /\ sess[1].transcribeStream \in sess[1].aborted =>
                  sess'[1].stopPending = sess[1].stopPending]_vars

\* The session has stopped: the client is marked disconnected, or startStream
\* has returned for good (a terminal backend error or the end of the stream).
Stopped(S) == ~S.isClientConnected \/ S.pc = "done"

\* C17: once the session has stopped, no chunk is yielded to the backend any
\* more, a generator that polls returns at that poll, and (the polling loop
\* being scheduled fairly) every polling generator does return.
AudioSupplyStops ==
    /\ [][Stopped(sess[1]) =>
            /\ sess'[1].yielded = sess[1].yielded
            /\ \A a \in 1..2 : AudioPoll(1, a) => sess'[1].gen[a] = "done"]_vars
    /\ \A a \in 1..2 :
          (Stopped(sess[1]) /\ sess[1].gen[a] = "running") ~> (sess[1].gen[a] = "done")

\* C17 witness: the client disconnected, the retry was started afterwards, and
\* its generator has returned with an accepted chunk still in the buffer.
AudioSupplyStopsWitness ==
    LET S == sess[1] IN
    /\ ~S.isClientConnected
    /\ S.attempt = 2 /\ S.gen[2] = "done"
    /\ Len(S.audioInputBuffer) > 0

\* The messages the session has sent, by kind, and the last of them
Outbound(S) == << S.lastOut, S.sentErrors, S.sentFatal, S.sentSummaries >>

\* C18: a transcript message is sent only by the step that handles a backend
\* event, and it is the message of that very event (its text and its partial
\* flag as received), so the messages leave in the order the events arrive,
\* one at most per event; an event that arrives when the client is marked
\* disconnected or the transcribing flag is false sends nothing.
TranscriptsInOrder ==
    [][/\ \A e \in OrderEvents(1) :
            TranscriptEvent(1, e) =>
               IF sess[1].isTranscribing /\ sess[1].isClientConnected
               THEN sess[1].readyState = "OPEN" =>
                       /\ sess'[1].lastOut.type = "transcript"
                       /\ sess'[1].lastOut.text = e.Transcript
                       /\ sess'[1].lastOut.isPartial = e.IsPartial
                       /\ Len(sess'[1].lastOut.items) = Len(e.Items)
                       /\ sess'[1].lastEvent = e
               ELSE Outbound(sess'[1]) = Outbound(sess[1])
       /\ sess'[1].lastOut.type = "transcript" /\ sess'[1].lastOut # sess[1].lastOut =>
             /\ sess[1].isTranscribing /\ sess[1].isClientConnected
             /\ \E e \in OrderEvents(1) :
                   TranscriptEvent(1, e)]_vars

\* C18 witness: a partial transcript was forwarded as the last message, then
\* the client was marked disconnected and the stream was left without any
\* further message.
TranscriptsInOrderWitness ==
    LET S == sess[1] IN
    /\ S.lastOut.type = "transcript" /\ S.lastOut.isPartial
    /\ S.lastEvent.IsPartial
    /\ ~S.isClientConnected /\ S.errorEmitted /\ S.readyState = "OPEN"
    /\ S.pc = "done"

\* C19 as stated: no step taken while the socket of the session is CLOSING or
\* CLOSED, or its client is marked disconnected, opens a backend stream.
NoOpenAfterClose ==
    [][sess[1].readyState # "OPEN" \/ ~sess[1].isClientConnected =>
          sess'[1].opened = sess[1].opened]_vars

\* The backend stream of the session has ended: the stream of the current
\* attempt is over (it ended, or send() or the event stream threw).
Ended(S) == S.streams[S.attempt] = "closed"

\* C20 as stated: once the backend stream has ended, the transcribing flag is
\* false and stays false, no chunk is added to the buffer, and every inbound
\* message is answered with one non-fatal error.
NeverRestarts ==
    [][Ended(sess[1]) =>
          /\ ~sess[1].isTranscribing /\ ~sess'[1].isTranscribing
          /\ sess'[1].accepted = sess[1].accepted
          /\ \A m \in ClientMessages :
                OnMessage(1, m) =>
                   /\ sess'[1].sentErrors = sess[1].sentErrors + 1
                   /\ sess'[1].lastOut.type = "error"
                   /\ ~sess'[1].lastOut.fatal]_vars

====
